---- MODULE Spec2Model ----
(***************************************************************************)
(* Bridge STAAD Builder (main.py): the truss geometry generator            *)
(* compute_geometry and the exporter run_in_staad, which drives the        *)
(* external modeling service one call at a time.                           *)
(*                                                                         *)
(* Lengths are fixed-point integers in units of 1/Scale (the code rounds   *)
(* every coordinate to 4 decimal places).  Python lists are sequences read *)
(* with the 0-based accessor At; Python dicts are functions on their key   *)
(* set, written with DictSet (d[k] = v).                                   *)
(***************************************************************************)
EXTENDS Integers, Sequences, FiniteSets, TLC

\* ------------------------------------------------------------------ bounds
\* Largest and (negated) smallest panel count drawn as an input.
MaxPanels == 8
NegPanels == 1

Panels == (0 - NegPanels)..MaxPanels
Spans == {-40, 0, 100, 120}
Heights == {-5, 0, 20}

\* ------------------------------------------------------- program constants
\* round(v, 4): four decimal places.
Scale == 10000
\* Precision of the sine table below (seven decimal places).
SinScale == 10000000

BRIDGE_TYPES == {"Pratt Truss", "Warren Truss", "Howe Truss", "Bowstring Arch"}

\* btype.lower().split()[0]
BtypeKey(btype) ==
  CASE btype = "Pratt Truss" -> "pratt"
    [] btype = "Warren Truss" -> "warren"
    [] btype = "Howe Truss" -> "howe"
    [] btype = "Bowstring Arch" -> "bowstring"

\* ------------------------------------------------------------ Python data
At(list, i) == list[i + 1]

DictSet(d, k, v) == [x \in (DOMAIN d) \cup {k} |-> IF x = k THEN v ELSE d[x]]

EmptyDict == [x \in {} |-> 0]

\* Elements of a list, as a set.
Elems(list) == {list[j] : j \in 1..Len(list)}

\* round(n / d) to the nearest integer, ties to even (Python's round), d > 0.
RoundDiv(n, d) ==
  LET q == n \div d
      r == n % d
  IN  IF 2 * r < d THEN q
      ELSE IF 2 * r > d THEN q + 1
      ELSE IF q % 2 = 0 THEN q ELSE q + 1

\* math.sin((i / panels) * math.pi), scaled by SinScale, for panels = 1..11.
\* With the heights drawn here round(height * sin(..), 4) computed from this
\* table equals the value the floating-point code produces.
SinTable ==
  << <<0, 0>>,
     <<0, 10000000, 0>>,
     <<0, 8660254, 8660254, 0>>,
     <<0, 7071068, 10000000, 7071068, 0>>,
     <<0, 5877853, 9510565, 9510565, 5877853, 0>>,
     <<0, 5000000, 8660254, 10000000, 8660254, 5000000, 0>>,
     <<0, 4338837, 7818315, 9749279, 9749279, 7818315, 4338837, 0>>,
     <<0, 3826834, 7071068, 9238795, 10000000, 9238795, 7071068, 3826834, 0>>,
     <<0, 3420201, 6427876, 8660254, 9848078, 9848078, 8660254, 6427876, 3420201, 0>>,
     <<0, 3090170, 5877853, 8090170, 9510565, 10000000, 9510565, 8090170, 5877853, 3090170, 0>>,
     <<0, 2817326, 5406408, 7557496, 9096320, 9898214, 9898214, 9096320, 7557496, 5406408, 2817326, 0>> >>

Sin(i, panels) == SinTable[panels][i + 1]

\* ------------------------------------------------------ compute_geometry
\* x = round(i * panel_w, 4), panel_w = span / panels
NodeX(i, span, panels) == RoundDiv(i * span * Scale, panels)

\* x = round((i + 0.5) * panel_w, 4)
ApexX(i, span, panels) == RoundDiv((2 * i + 1) * span * Scale, 2 * panels)

\* y = round(height * math.sin((i / panels) * math.pi), 4)
ArchY(i, height, panels) == RoundDiv(height * Sin(i, panels), SinScale \div Scale)

\* float(height)
FlatY(height) == height * Scale

\* The locals of one call before the first loop.
GeoStart ==
  [nodes |-> EmptyDict, nid |-> 1, bottom |-> <<>>, top |-> <<>>,
   members |-> EmptyDict, mid_ |-> 1,
   bot_ch |-> <<>>, top_ch |-> <<>>, verts |-> <<>>, diags |-> <<>>]

\* nodes[nid] = (x, y, 0.0); bottom.append(nid); nid += 1
AddBottomNode(g, x, y) ==
  [g EXCEPT !.nodes = DictSet(g.nodes, g.nid, <<x, y, 0>>),
            !.bottom = Append(g.bottom, g.nid),
            !.nid = g.nid + 1]

\* Mutant: the top-node loop forgets nid += 1.
AddTopNode_KeepNid(g, x, y) ==
  [g EXCEPT !.nodes = DictSet(g.nodes, g.nid, <<x, y, 0>>),
            !.top = Append(g.top, g.nid)]

\* nodes[nid] = (x, y, 0.0); top.append(nid); nid += 1
AddTopNode(g, x, y) ==
  [g EXCEPT !.nodes = DictSet(g.nodes, g.nid, <<x, y, 0>>),
            !.top = Append(g.top, g.nid),
            !.nid = g.nid + 1]

\* Mutant: mid_ += 1 runs before the role list is appended to.
AddMember_LateAppend(g, n1, n2, role) ==
  [g EXCEPT !.members = DictSet(g.members, g.mid_, <<n1, n2>>),
            ![role] = Append(g[role], g.mid_ + 1),
            !.mid_ = g.mid_ + 1]

\* members[mid_] = (n1, n2); <role>.append(mid_); mid_ += 1
AddMember(g, n1, n2, role) ==
  [g EXCEPT !.members = DictSet(g.members, g.mid_, <<n1, n2>>),
            ![role] = Append(g[role], g.mid_),
            !.mid_ = g.mid_ + 1]

RECURSIVE BottomNodeLoop(_, _, _, _)
BottomNodeLoop(g, i, span, panels) ==
  IF i >= panels + 1 THEN g
  ELSE BottomNodeLoop(AddBottomNode(g, NodeX(i, span, panels), 0), i + 1, span, panels)

\* Mutant: an apex node is created above the right support too.
RECURSIVE WarrenTopLoop_Full(_, _, _, _, _)
WarrenTopLoop_Full(g, i, span, height, panels) ==
  IF i >= panels + 1 THEN g
  ELSE WarrenTopLoop_Full(AddTopNode(g, ApexX(i, span, panels), FlatY(height)),
                          i + 1, span, height, panels)

RECURSIVE WarrenTopLoop(_, _, _, _, _)
WarrenTopLoop(g, i, span, height, panels) ==
  IF i >= panels THEN g
  ELSE WarrenTopLoop(AddTopNode(g, ApexX(i, span, panels), FlatY(height)),
                     i + 1, span, height, panels)

RECURSIVE BowstringTopLoop(_, _, _, _, _)
BowstringTopLoop(g, i, span, height, panels) ==
  IF i >= panels + 1 THEN g
  ELSE BowstringTopLoop(AddTopNode(g, NodeX(i, span, panels), ArchY(i, height, panels)),
                        i + 1, span, height, panels)

RECURSIVE FlatTopLoop(_, _, _, _, _)
FlatTopLoop(g, i, span, height, panels) ==
  IF i >= panels + 1 THEN g
  ELSE FlatTopLoop(AddTopNode(g, NodeX(i, span, panels), FlatY(height)),
                   i + 1, span, height, panels)

TopNodes(g, key, span, height, panels) ==
  IF key = "warren" THEN WarrenTopLoop(g, 0, span, height, panels)
  ELSE IF key = "bowstring" THEN BowstringTopLoop(g, 0, span, height, panels)
  ELSE FlatTopLoop(g, 0, span, height, panels)

\* for i in range(panels): members[mid_] = (bottom[i], bottom[i+1])
RECURSIVE BottomChordLoop(_, _, _)
BottomChordLoop(g, i, panels) ==
  IF i >= panels THEN g
  ELSE BottomChordLoop(AddMember(g, At(g.bottom, i), At(g.bottom, i + 1), "bot_ch"),
                       i + 1, panels)

\* for i in range(n): members[mid_] = (top[i], top[i+1])
RECURSIVE TopChordLoop(_, _, _)
TopChordLoop(g, i, n) ==
  IF i >= n THEN g
  ELSE TopChordLoop(AddMember(g, At(g.top, i), At(g.top, i + 1), "top_ch"), i + 1, n)

\* Warren diagonals: (bottom[i], top[i]) then (top[i], bottom[i+1])
RECURSIVE WarrenDiagLoop(_, _, _)
WarrenDiagLoop(g, i, panels) ==
  IF i >= panels THEN g
  ELSE WarrenDiagLoop(
         AddMember(AddMember(g, At(g.bottom, i), At(g.top, i), "diags"),
                   At(g.top, i), At(g.bottom, i + 1), "diags"),
         i + 1, panels)

\* Mutant: a vertical joins bottom[i] to itself.
RECURSIVE VerticalLoop_Self(_, _, _)
VerticalLoop_Self(g, i, panels) ==
  IF i >= panels + 1 THEN g
  ELSE VerticalLoop_Self(AddMember(g, At(g.bottom, i), At(g.bottom, i), "verts"),
                         i + 1, panels)

\* for i in range(panels + 1): members[mid_] = (bottom[i], top[i])
RECURSIVE VerticalLoop(_, _, _)
VerticalLoop(g, i, panels) ==
  IF i >= panels + 1 THEN g
  ELSE VerticalLoop(AddMember(g, At(g.bottom, i), At(g.top, i), "verts"), i + 1, panels)

\* Mutant: the direction flips one panel late (i <= half).
PrattHoweDiag_Inclusive(g, key, i, half) ==
  IF key = "pratt"
  THEN IF i <= half THEN <<At(g.top, i), At(g.bottom, i + 1)>>
       ELSE <<At(g.bottom, i), At(g.top, i + 1)>>
  ELSE IF i <= half THEN <<At(g.bottom, i), At(g.top, i + 1)>>
       ELSE <<At(g.top, i), At(g.bottom, i + 1)>>

\* The end nodes of the diagonal of panel i of a Pratt or Howe truss.
PrattHoweDiag(g, key, i, half) ==
  IF key = "pratt"
  THEN IF i < half THEN <<At(g.top, i), At(g.bottom, i + 1)>>
       ELSE <<At(g.bottom, i), At(g.top, i + 1)>>
  ELSE IF i < half THEN <<At(g.bottom, i), At(g.top, i + 1)>>
       ELSE <<At(g.top, i), At(g.bottom, i + 1)>>

RECURSIVE PrattHoweDiagLoop(_, _, _, _, _)
PrattHoweDiagLoop(g, key, i, half, panels) ==
  IF i >= panels THEN g
  ELSE LET d == PrattHoweDiag(g, key, i, half)
       IN  PrattHoweDiagLoop(AddMember(g, d[1], d[2], "diags"), key, i + 1, half, panels)

\* Bowstring diagonals: (bottom[i], top[i+1])
RECURSIVE BowstringDiagLoop(_, _, _)
BowstringDiagLoop(g, i, panels) ==
  IF i >= panels THEN g
  ELSE BowstringDiagLoop(AddMember(g, At(g.bottom, i), At(g.top, i + 1), "diags"),
                         i + 1, panels)

TypeMembers(g, key, panels) ==
  IF key = "warren"
  THEN WarrenDiagLoop(TopChordLoop(g, 0, panels - 1), 0, panels)
  ELSE IF key \in {"pratt", "howe"}
  THEN PrattHoweDiagLoop(VerticalLoop(TopChordLoop(g, 0, panels), 0, panels),
                         key, 0, panels \div 2, panels)
  ELSE IF key = "bowstring"
  THEN BowstringDiagLoop(VerticalLoop(TopChordLoop(g, 0, panels), 0, panels), 0, panels)
  ELSE g

\* What one call produces: exc = "ZeroDivisionError" when span / panels
\* raises, else the eight returned values.
compute_geometry(span, height, panels, btype) ==
  IF panels = 0
  THEN [exc |-> "ZeroDivisionError"]
  ELSE LET key == BtypeKey(btype)
           g1 == BottomNodeLoop(GeoStart, 0, span, panels)
           g2 == TopNodes(g1, key, span, height, panels)
           g3 == BottomChordLoop(g2, 0, panels)
           g4 == TypeMembers(g3, key, panels)
       IN  [exc |-> "none", nodes |-> g4.nodes, members |-> g4.members,
            bottom |-> g4.bottom, top |-> g4.top, bot_ch |-> g4.bot_ch,
            top_ch |-> g4.top_ch, verts |-> g4.verts, diags |-> g4.diags]

\* ------------------------------------------------------------------ state
VARIABLES
  cfg,      \* the configuration handed to the call under way
  binding,  \* whether the openstaadpy binding can be imported
  geo,      \* what compute_geometry produced in this call (exc = "unset" before)
  pc,       \* position in the function under way
  calls,    \* external service calls issued so far, in order
  logs,     \* log_callback invocations so far, in order
  result,   \* "none" while running, "True" / "False" returned, "raised" escaped
  raised    \* the call or statement that raised, "none" if nothing did

\* The desktop shell (BridgeSTAADApp).
VARIABLES
  form,     \* the form's variables: the type selected, the load entries' text
  btn,      \* state of the export button: "normal" or "disabled"
  status,   \* text of the status indicator
  display,  \* lines of the output log widget, in order
  inbox,    \* callbacks handed to the UI thread with after(0, ...), in order
  workers,  \* worker threads started and not yet finished
  runs      \* exports started so far

shell == <<form, btn, status, display, inbox, workers, runs>>

vars == <<cfg, binding, geo, pc, calls, logs, result, raised,
          form, btn, status, display, inbox, workers, runs>>

\* A log line: the message and its tag.
Log(text, tag) == [kind |-> "log", op |-> text, a |-> <<tag>>]

\* The shell as __init__ leaves it.
ShellAtRest ==
  /\ form = [bridge_type |-> "Pratt Truss", loads |-> "number"]
  /\ btn = "normal"
  /\ status = "READY"
  /\ display = << Log("Bridge STAAD Builder ready", "info") >>
  /\ inbox = <<>>
  /\ workers = 0
  /\ runs = 0

\* log_callback: called directly it only collects the line (logs); as the
\* worker's log it also hands _log_write to the UI thread.
LogCallback ==
  /\ inbox' = IF workers > 0
                THEN inbox \o SubSeq(logs', Len(logs) + 1, Len(logs'))
                ELSE inbox
  /\ UNCHANGED <<form, btn, status, display, workers, runs>>

Unset == [exc |-> "unset"]

UNIT_OPTIONS ==
  [u \in {"Feet / Kip", "Meter / kN", "Inches / Kip"} |->
     CASE u = "Feet / Kip" -> <<1, 0>>
       [] u = "Meter / kN" -> <<5, 4>>
       [] u = "Inches / Kip" -> <<0, 0>>]

SupportTypes == {"Fixed", "Pinned", "Roller"}

\* Load magnitudes, in tenths (dead and wind in k/ft, live in kips).
DeadLoads == {0, 12}
LiveLoads == {0, 200}
WindLoads == {0, 6}

MakeCfg(bt, s, h, p, sl, sr, sw, dl, ll, wl) ==
  [bridge_type |-> bt, span |-> s, height |-> h, panels |-> p,
   unit |-> "Feet / Kip", support_left |-> sl, support_right |-> sr,
   chord_sec |-> "W21X50", diag_sec |-> "L40404",
   dead_load |-> dl, live_load |-> ll, wind_load |-> wl, self_weight |-> sw]

\* ------------------------------------------- specification of the generator
\* One call of compute_geometry on inputs drawn from the bounded sets, as
\* draw_preview_mpl and run_in_staad make it.
InitGeom ==
  /\ cfg \in {MakeCfg(bt, s, h, p, "Fixed", "Pinned", TRUE, 12, 200, 6) :
                bt \in BRIDGE_TYPES, s \in Spans, h \in Heights, p \in Panels}
  /\ binding = TRUE
  /\ geo = Unset
  /\ pc = "call"
  /\ calls = <<>>
  /\ logs = <<>>
  /\ result = "none"
  /\ raised = "none"
  /\ ShellAtRest

GenerateReturns ==
  /\ pc = "call"
  /\ cfg.panels # 0
  /\ geo' = compute_geometry(cfg.span, cfg.height, cfg.panels, cfg.bridge_type)
  /\ pc' = "returned"
  /\ UNCHANGED <<cfg, binding, calls, logs, result, raised>>
  /\ LogCallback

GenerateRaises ==
  /\ pc = "call"
  /\ cfg.panels = 0
  /\ geo' = compute_geometry(cfg.span, cfg.height, cfg.panels, cfg.bridge_type)
  /\ pc' = "raised"
  /\ raised' = geo'.exc
  /\ UNCHANGED <<cfg, binding, calls, logs, result>>
  /\ LogCallback

NextGeom == GenerateReturns \/ GenerateRaises

SpecGeom == InitGeom /\ [][NextGeom]_vars

\* ----------------------------------------------------------- run_in_staad
\* Largest panel count drawn for an export.
MaxExportPanels == 4

ExportPanels == (0 - NegPanels)..MaxExportPanels
\* (span, height) pairs drawn for an export.
ExportSizes == {<<100, 20>>, <<0, 20>>, <<100, 0>>}

\* One statement of the try block: an external call or a log_callback line.
Call(op, a) == [kind |-> "call", op |-> op, a |-> a]

IsCall(item) == item.kind = "call"
IsLog(item) == item.kind = "log"

\* for nid, (x, y, z) in nodes.items(): geo.CreateNode(nid, x, y, z)
\* (a dict iterates in insertion order: the bottom nodes, then the top nodes)
NodeItems(g) ==
  LET order == g.bottom \o g.top
  IN  [k \in 1..Len(order) |-> Call("CreateNode", <<order[k]>> \o g.nodes[order[k]])]

\* for mid, (n1, n2) in members.items(): geo.CreateBeam(mid, n1, n2)
MemberItems(g) ==
  LET order == g.bot_ch \o g.top_ch \o g.verts \o g.diags
  IN  [k \in 1..Len(order) |-> Call("CreateBeam", <<order[k]>> \o g.members[order[k]])]

\* len(members): the number of keys of the dict
TotalM(g) == Cardinality(DOMAIN g.members)
TotalN(g) == Cardinality(DOMAIN g.nodes)

ConnectItems ==
  << Log("Connecting to STAAD.Pro", "info"), Call("connect", <<>>) >>

UnitItems(c) ==
  << Log("Setting units", "info"),
     Call("SetInputUnits", UNIT_OPTIONS[c.unit]),
     Call("SaveModel", <<TRUE>>) >>

CreateNodeItems(g) == << Log("Creating nodes", "info") >> \o NodeItems(g)

CreateMemberItems(g) == << Log("Creating members", "info") >> \o MemberItems(g)

PropertyItems(c, g) ==
  << Log("Assigning sections", "info"),
     Call("CreateBeamPropertyFromTable", <<1, c.chord_sec>>),
     Call("CreateAnglePropertyFromTable", <<1, c.diag_sec>>),
     Call("AssignBeamProperty", <<g.bot_ch, "chord_p">>) >>
  \o (IF g.top_ch # <<>> THEN << Call("AssignBeamProperty", <<g.top_ch, "chord_p">>) >> ELSE <<>>)
  \o (IF g.verts # <<>> THEN << Call("AssignBeamProperty", <<g.verts, "diag_p">>) >> ELSE <<>>)
  \o (IF g.diags # <<>> THEN << Call("AssignBeamProperty", <<g.diags, "diag_p">>) >> ELSE <<>>)
  \o << Call("AssignMaterialToMember", <<"STEEL", [k \in 1..TotalM(g) |-> k]>>) >>

\* Mutant: the releases are assigned member by member.
ReleaseItems_PerMember(g) ==
  IF g.diags # <<>>
  THEN << Log("Applying member releases", "info"),
          Call("CreateMemberPartialReleaseSpec", <<0>>),
          Call("CreateMemberPartialReleaseSpec", <<1>>) >>
       \o [k \in 1..Len(g.diags) |-> Call("AssignMemberSpecToBeam", <<<<g.diags[k]>>, "sr">>)]
       \o [k \in 1..Len(g.diags) |-> Call("AssignMemberSpecToBeam", <<<<g.diags[k]>>, "er">>)]
  ELSE <<>>

ReleaseItems(g) ==
  IF g.diags # <<>>
  THEN << Log("Applying member releases", "info"),
          Call("CreateMemberPartialReleaseSpec", <<0>>),
          Call("CreateMemberPartialReleaseSpec", <<1>>),
          Call("AssignMemberSpecToBeam", <<g.diags, "sr">>),
          Call("AssignMemberSpecToBeam", <<g.diags, "er">>) >>
  ELSE <<>>

\* if supp_l == "Fixed": CreateSupportFixed() else: CreateSupportPinned()
LeftSupportKind(supp_l) == IF supp_l = "Fixed" THEN "Fixed" ELSE "Pinned"

\* if supp_r == "Pinned": CreateSupportPinned() else: CreateSupportFixed()
RightSupportKind(supp_r) == IF supp_r = "Pinned" THEN "Pinned" ELSE "Fixed"

SupportCreateOp(kind) ==
  IF kind = "Fixed" THEN "CreateSupportFixed" ELSE "CreateSupportPinned"

\* The support calls; the id a Create call returns is written as the kind
\* of support it created.  bottom is not empty here.
SupportItems(c, g) ==
  LET left_node == At(g.bottom, 0)
      right_node == At(g.bottom, Len(g.bottom) - 1)
      lk == LeftSupportKind(c.support_left)
      rk == RightSupportKind(c.support_right)
  IN  << Log("Assigning supports", "info"),
         Call(SupportCreateOp(lk), <<>>),
         Call("AssignSupportToNode", <<left_node, lk>>),
         Call(SupportCreateOp(rk), <<>>),
         Call("AssignSupportToNode", <<right_node, rk>>) >>

\* Mutant: the slice keeps the right support node (bottom[1:]).
Interior_WithRightEnd(bottom) ==
  IF Len(bottom) <= 1 THEN <<>> ELSE SubSeq(bottom, 2, Len(bottom))

\* interior = bottom[1:-1]
Interior(bottom) ==
  IF Len(bottom) <= 2 THEN <<>> ELSE SubSeq(bottom, 2, Len(bottom) - 1)

LoadCase1Items(c, g) ==
  LET interior == Interior(g.bottom)
  IN  << Log("Creating load cases", "info"),
         Call("CreateNewPrimaryLoadEx2", <<"DEAD AND LIVE LOAD", 0, 1>>),
         Call("SetLoadActive", <<1>>) >>
      \o (IF c.self_weight THEN << Call("AddSelfWeightInXYZ", <<2, -1>>) >> ELSE <<>>)
      \o (IF c.live_load > 0 /\ interior # <<>>
          THEN [k \in 1..Len(interior) |->
                  Call("AddNodalLoad", <<interior[k], 0 - c.live_load>>)]
          ELSE <<>>)
      \o (IF c.dead_load > 0
          THEN << Call("AddMemberUniformForce", <<g.bot_ch, 2, 0 - c.dead_load>>) >>
          ELSE <<>>)

LoadCase2Items(c, g) ==
  << Call("CreateNewPrimaryLoadEx2", <<"WIND FROM LEFT", 3, 2>>),
     Call("SetLoadActive", <<2>>) >>
  \o (IF c.wind_load > 0
      THEN << Call("AddMemberUniformForce",
                   <<(IF g.verts # <<>> THEN g.verts ELSE g.bot_ch), 4, c.wind_load>>) >>
      ELSE <<>>)

CombinationItems ==
  << Call("CreateNewLoadCombination", <<"75 PERCENT DL LL WL", 3>>),
     Call("AddLoadAndFactorToCombination", <<3, 1, 75>>),
     Call("AddLoadAndFactorToCombination", <<3, 2, 75>>) >>

\* Mutant: the analysis is run before the model is saved.
SaveItems_AnalyseFirst ==
  << Log("Running analysis", "info"), Call("PerformAnalysis", <<0>>),
     Log("Saving model", "info"), Call("SaveModel", <<TRUE>>) >>

SaveItems ==
  << Log("Saving model", "info"), Call("SaveModel", <<TRUE>>),
     Log("Running analysis", "info"), Call("PerformAnalysis", <<0>>) >>

ErrorLog == Log("Error", "error")

\* The calls of items that raise when the service is asked: any of them.
CallIdx(items) == {j \in 1..Len(items) : IsCall(items[j])}

\* calls holds every call issued, the one that raised (if any) being the last.
\* Statements items run from position `at`; every call returns: go on at `to`.
Returns(at, to, items) ==
  /\ pc = at
  /\ calls' = calls \o SelectSeq(items, IsCall)
  /\ logs' = logs \o SelectSeq(items, IsLog)
  /\ pc' = to
  /\ UNCHANGED <<cfg, binding, geo, result, raised>>
  /\ LogCallback

\* Mutant: the except clause returns False without reporting the error.
Raises_Silent(at, items) ==
  /\ pc = at
  /\ \E f \in CallIdx(items) :
       LET ran == SubSeq(items, 1, f)
       IN  /\ calls' = calls \o SelectSeq(ran, IsCall)
           /\ logs' = logs \o SelectSeq(ran, IsLog)
           /\ raised' = items[f].op
  /\ result' = "False"
  /\ pc' = "done"
  /\ UNCHANGED <<cfg, binding, geo>>
  /\ LogCallback

\* Statements items run from position `at`; call number f raises: the
\* except clause logs the error and the function returns False.
Raises(at, items) ==
  /\ pc = at
  /\ \E f \in CallIdx(items) :
       LET ran == SubSeq(items, 1, f)
       IN  /\ calls' = calls \o SelectSeq(ran, IsCall)
           /\ logs' = (logs \o SelectSeq(ran, IsLog)) \o << ErrorLog >>
           /\ raised' = items[f].op
  /\ result' = "False"
  /\ pc' = "done"
  /\ UNCHANGED <<cfg, binding, geo>>
  /\ LogCallback

\* Mutant: the ImportError branch logs but does not return.
ImportFails_NoReturn ==
  /\ pc = "start"
  /\ ~binding
  /\ logs' = Append(logs, Log("ERROR: openstaadpy not found", "error"))
  /\ raised' = "ImportError"
  /\ pc' = "geometry"
  /\ UNCHANGED <<cfg, binding, geo, calls, result>>
  /\ LogCallback

\* from openstaadpy import os_analytical
ImportFails ==
  /\ pc = "start"
  /\ ~binding
  /\ logs' = Append(logs, Log("ERROR: openstaadpy not found", "error"))
  /\ raised' = "ImportError"
  /\ result' = "False"
  /\ pc' = "done"
  /\ UNCHANGED <<cfg, binding, geo, calls>>
  /\ LogCallback

ImportReturns ==
  /\ pc = "start"
  /\ binding
  /\ pc' = "geometry"
  /\ UNCHANGED <<cfg, binding, geo, calls, logs, result, raised>>
  /\ LogCallback

\* The statements between the import and the try block: the configuration
\* is read and compute_geometry is called.  An exception here is outside
\* the try block and leaves run_in_staad.
GeometryReturns ==
  /\ pc = "geometry"
  /\ cfg.panels # 0
  /\ geo' = compute_geometry(cfg.span, cfg.height, cfg.panels, cfg.bridge_type)
  /\ pc' = "connect"
  /\ UNCHANGED <<cfg, binding, calls, logs, result, raised>>
  /\ LogCallback

GeometryRaises ==
  /\ pc = "geometry"
  /\ cfg.panels = 0
  /\ geo' = compute_geometry(cfg.span, cfg.height, cfg.panels, cfg.bridge_type)
  /\ raised' = geo'.exc
  /\ result' = "raised"
  /\ pc' = "done"
  /\ UNCHANGED <<cfg, binding, calls, logs>>
  /\ LogCallback

ConnectReturns == Returns("connect", "units", ConnectItems)
ConnectRaises == Raises("connect", ConnectItems)

UnitsReturns == Returns("units", "nodes", UnitItems(cfg))
UnitsRaises == Raises("units", UnitItems(cfg))

NodesReturns == Returns("nodes", "members", CreateNodeItems(geo))
NodesRaises == Raises("nodes", CreateNodeItems(geo))

MembersReturns == Returns("members", "properties", CreateMemberItems(geo))
MembersRaises == Raises("members", CreateMemberItems(geo))

PropertiesReturns == Returns("properties", "releases", PropertyItems(cfg, geo))
PropertiesRaises == Raises("properties", PropertyItems(cfg, geo))

ReleasesReturns == Returns("releases", "supports", ReleaseItems(geo))
ReleasesRaises == Raises("releases", ReleaseItems(geo))

SupportsReturns ==
  /\ geo.exc = "none" /\ geo.bottom # <<>>
  /\ Returns("supports", "load1", SupportItems(cfg, geo))

SupportsRaises ==
  /\ geo.exc = "none" /\ geo.bottom # <<>>
  /\ Raises("supports", SupportItems(cfg, geo))

\* left_node = bottom[0] on an empty list
SupportsIndexError ==
  /\ pc = "supports"
  /\ geo.bottom = <<>>
  /\ logs' = logs \o << Log("Assigning supports", "info"), ErrorLog >>
  /\ raised' = "IndexError"
  /\ result' = "False"
  /\ pc' = "done"
  /\ UNCHANGED <<cfg, binding, geo, calls>>
  /\ LogCallback

LoadCase1Returns == Returns("load1", "load2", LoadCase1Items(cfg, geo))
LoadCase1Raises == Raises("load1", LoadCase1Items(cfg, geo))

LoadCase2Returns == Returns("load2", "combination", LoadCase2Items(cfg, geo))
LoadCase2Raises == Raises("load2", LoadCase2Items(cfg, geo))

CombinationReturns == Returns("combination", "save", CombinationItems)
CombinationRaises == Raises("combination", CombinationItems)

SaveReturns == Returns("save", "finish", SaveItems)
SaveRaises == Raises("save", SaveItems)

\* log_callback(DONE, success=True); return True
Finish ==
  /\ pc = "finish"
  /\ logs' = Append(logs, Log("DONE", "success"))
  /\ result' = "True"
  /\ pc' = "done"
  /\ UNCHANGED <<cfg, binding, geo, calls, raised>>
  /\ LogCallback

Init ==
  /\ cfg \in {MakeCfg(bt, sz[1], sz[2], p, sl, sr, sw, dl, ll, wl) :
                bt \in BRIDGE_TYPES, sz \in ExportSizes, p \in ExportPanels,
                sl \in SupportTypes, sr \in SupportTypes, sw \in BOOLEAN,
                dl \in DeadLoads, ll \in LiveLoads, wl \in WindLoads}
  /\ binding \in BOOLEAN
  /\ geo = Unset
  /\ pc = "start"
  /\ calls = <<>>
  /\ logs = <<>>
  /\ result = "none"
  /\ raised = "none"
  /\ ShellAtRest

Next ==
  \/ ImportFails \/ ImportReturns
  \/ GeometryReturns \/ GeometryRaises
  \/ ConnectReturns \/ ConnectRaises
  \/ UnitsReturns \/ UnitsRaises
  \/ NodesReturns \/ NodesRaises
  \/ MembersReturns \/ MembersRaises
  \/ PropertiesReturns \/ PropertiesRaises
  \/ ReleasesReturns \/ ReleasesRaises
  \/ SupportsReturns \/ SupportsRaises \/ SupportsIndexError
  \/ LoadCase1Returns \/ LoadCase1Raises
  \/ LoadCase2Returns \/ LoadCase2Raises
  \/ CombinationReturns \/ CombinationRaises
  \/ SaveReturns \/ SaveRaises
  \/ Finish

Spec == Init /\ [][Next]_vars

\* ------------------------------------------------------- the desktop shell
\* The smallest panel count the form offers (the Panels slider).
MinUIPanels == 4

\* Exports one exploration starts.
MaxRuns == 2

\* The span and the height the form starts with.
FormSpan == 120
FormHeight == 20

\* The configuration _on_run reads from the form's variables.
FormCfg ==
  MakeCfg(form.bridge_type, FormSpan, FormHeight, MinUIPanels,
          "Fixed", "Pinned", TRUE, 12, 200, 6)

\* compute_geometry on the form's values, for each type the form offers.
FormGeometry ==
  [bt \in BRIDGE_TYPES |->
     compute_geometry(FormSpan, FormHeight, MinUIPanels, bt)]

\* The completion update the worker hands to the UI thread.
DoneEvent(ok) == [kind |-> "done", op |-> "_done", a |-> <<ok>>]

ShellInit ==
  /\ ShellAtRest
  /\ cfg = FormCfg
  /\ binding \in BOOLEAN
  /\ geo = Unset
  /\ pc = "idle"
  /\ calls = <<>>
  /\ logs = <<>>
  /\ result = "none"
  /\ raised = "none"

\* The user picks another bridge type.
SelectType ==
  /\ \E bt \in BRIDGE_TYPES \ {form.bridge_type} :
       form' = [form EXCEPT !.bridge_type = bt]
  /\ UNCHANGED <<cfg, binding, geo, pc, calls, logs, result, raised>>
  /\ UNCHANGED <<btn, status, display, inbox, workers, runs>>

\* The user retypes a load entry: its text is a number or it is not.
EditLoads ==
  /\ \E t \in {"number", "text"} \ {form.loads} :
       form' = [form EXCEPT !.loads = t]
  /\ UNCHANGED <<cfg, binding, geo, pc, calls, logs, result, raised>>
  /\ UNCHANGED <<btn, status, display, inbox, workers, runs>>

\* Mutant: the handler starts the worker and leaves the button enabled.
OnRunStarts_KeepEnabled ==
  /\ btn = "normal"
  /\ runs < MaxRuns
  /\ form.loads = "number"
  /\ status' = "RUNNING"
  /\ display' = << Log("Starting bridge model build", "info") >>
  /\ cfg' = FormCfg
  /\ workers' = workers + 1
  /\ runs' = runs + 1
  /\ pc' = "start"
  /\ geo' = Unset
  /\ calls' = <<>>
  /\ logs' = <<>>
  /\ result' = "none"
  /\ raised' = "none"
  /\ UNCHANGED <<binding, form, inbox, btn>>

\* _on_run, every form variable readable: the button is disabled, the status
\* set, the log restarted, the configuration read and the worker started.
\* A disabled button does not invoke its command.
OnRunStarts ==
  /\ btn = "normal"
  /\ runs < MaxRuns
  /\ form.loads = "number"
  /\ btn' = "disabled"
  /\ status' = "RUNNING"
  /\ display' = << Log("Starting bridge model build", "info") >>
  /\ cfg' = FormCfg
  /\ workers' = workers + 1
  /\ runs' = runs + 1
  /\ pc' = "start"
  /\ geo' = Unset
  /\ calls' = <<>>
  /\ logs' = <<>>
  /\ result' = "none"
  /\ raised' = "none"
  /\ UNCHANGED <<binding, form, inbox>>

\* _on_run, a load entry holding no number: reading the variable raises
\* TclError after the button, the status and the log were updated; no
\* worker is started.
OnRunTclError ==
  /\ btn = "normal"
  /\ runs < MaxRuns
  /\ form.loads = "text"
  /\ btn' = "disabled"
  /\ status' = "RUNNING"
  /\ display' = << Log("Starting bridge model build", "info") >>
  /\ UNCHANGED <<cfg, binding, geo, pc, calls, logs, result, raised>>
  /\ UNCHANGED <<form, inbox, workers, runs>>

\* The worker's call of compute_geometry, on the values _on_run read from
\* the form.
WorkerGeometry ==
  /\ pc = "geometry"
  /\ cfg.panels # 0
  /\ geo' = FormGeometry[cfg.bridge_type]
  /\ pc' = "connect"
  /\ UNCHANGED <<cfg, binding, calls, logs, result, raised>>
  /\ LogCallback

\* run_in_staad under the worker thread, which runs from the moment _on_run
\* starts it (pc = "start"). The form offers panels from MinUIPanels up, so
\* the steps that need panels <= 0 are not among them.
WorkerStep ==
  \/ ImportFails \/ ImportReturns
  \/ WorkerGeometry
  \/ ConnectReturns \/ ConnectRaises
  \/ UnitsReturns \/ UnitsRaises
  \/ NodesReturns \/ NodesRaises
  \/ MembersReturns \/ MembersRaises
  \/ PropertiesReturns \/ PropertiesRaises
  \/ ReleasesReturns \/ ReleasesRaises
  \/ SupportsReturns \/ SupportsRaises
  \/ LoadCase1Returns \/ LoadCase1Raises
  \/ LoadCase2Returns \/ LoadCase2Raises
  \/ CombinationReturns \/ CombinationRaises
  \/ SaveReturns \/ SaveRaises
  \/ Finish

\* run_in_staad returned ok: the worker hands _done to the UI thread and ends.
WorkerExits ==
  /\ workers > 0
  /\ pc = "done"
  /\ result \in {"True", "False"}
  /\ inbox' = Append(inbox, DoneEvent(result = "True"))
  /\ workers' = workers - 1
  /\ pc' = "exited"
  /\ UNCHANGED <<cfg, binding, geo, calls, logs, result, raised>>
  /\ UNCHANGED <<form, btn, status, display, runs>>

\* The UI thread runs the oldest pending callback, a _log_write.
LogWrite ==
  /\ inbox # <<>>
  /\ Head(inbox).kind = "log"
  /\ display' = Append(display, Head(inbox))
  /\ inbox' = Tail(inbox)
  /\ UNCHANGED <<cfg, binding, geo, pc, calls, logs, result, raised>>
  /\ UNCHANGED <<form, btn, status, workers, runs>>

\* The UI thread runs the oldest pending callback, a _done.
DoneRuns ==
  /\ inbox # <<>>
  /\ Head(inbox).kind = "done"
  /\ status' = IF Head(inbox).a[1] THEN "DONE" ELSE "ERROR"
  /\ btn' = "normal"
  /\ inbox' = Tail(inbox)
  /\ UNCHANGED <<cfg, binding, geo, pc, calls, logs, result, raised>>
  /\ UNCHANGED <<form, display, workers, runs>>

ShellNext ==
  \/ SelectType \/ EditLoads
  \/ OnRunStarts \/ OnRunTclError
  \/ WorkerStep \/ WorkerExits
  \/ LogWrite \/ DoneRuns

\* Every service call returns or raises, the worker thread is scheduled, and
\* the UI thread's event loop keeps running its pending callbacks.
SpecShell ==
  /\ ShellInit
  /\ [][ShellNext]_vars
  /\ WF_vars(WorkerStep \/ WorkerExits)
  /\ WF_vars(LogWrite \/ DoneRuns)

\* ------------------------------------------------- claims on the generator

\* A list holds no value twice.
NoDup(list) == \A j, k \in 1..Len(list) : j # k => list[j] # list[k]

Computed == geo.exc = "none"

PositiveSize == cfg.span > 0 /\ cfg.height > 0

\* Creations made by one call: every creation appends its id to one list.
NodeIdsCreated(g) == g.bottom \o g.top
MemberIdsCreated(g) == ((g.bot_ch \o g.top_ch) \o g.verts) \o g.diags

\* C1: for every topology and span > 0, height > 0, panelCount >= 4, the
\* node keys are exactly 1..N and the member keys exactly 1..M, N and M the
\* numbers of nodes and members created, and no id is used twice.
C1_DenseIds ==
  (Computed /\ PositiveSize /\ cfg.panels >= MinUIPanels) =>
    /\ DOMAIN geo.nodes = 1..Len(NodeIdsCreated(geo))
    /\ DOMAIN geo.members = 1..Len(MemberIdsCreated(geo))
    /\ NoDup(NodeIdsCreated(geo))
    /\ NoDup(MemberIdsCreated(geo))

C1_Witness ==
  /\ pc = "returned" /\ PositiveSize
  /\ cfg.panels = 8 /\ cfg.bridge_type = "Bowstring Arch"
  /\ DOMAIN geo.nodes = 1..18

\* C2: for every topology and valid input (span > 0, height > 0,
\* panelCount >= 1) the four role lists partition the member ids: their
\* union is every member id, they are pairwise disjoint, and no list holds
\* an id twice.
C2_RolesPartition ==
  (Computed /\ PositiveSize /\ cfg.panels >= 1) =>
    LET roles == <<geo.bot_ch, geo.top_ch, geo.verts, geo.diags>>
    IN  /\ UNION {Elems(roles[r]) : r \in 1..4} = DOMAIN geo.members
        /\ \A r, s \in 1..4 : r # s => Elems(roles[r]) \cap Elems(roles[s]) = {}
        /\ \A r \in 1..4 : NoDup(roles[r])

C2_Witness ==
  /\ pc = "returned" /\ PositiveSize
  /\ cfg.panels = 5 /\ cfg.bridge_type = "Howe Truss"
  /\ geo.verts # <<>> /\ geo.diags # <<>> /\ geo.top_ch # <<>>

\* C3: for every topology and valid input every member has both end nodes
\* among the node ids, and its start node differs from its end node.
C3_EndpointsValid ==
  (Computed /\ PositiveSize /\ cfg.panels >= 1) =>
    \A m \in DOMAIN geo.members :
      /\ geo.members[m][1] \in DOMAIN geo.nodes
      /\ geo.members[m][2] \in DOMAIN geo.nodes
      /\ geo.members[m][1] # geo.members[m][2]

C3_Witness ==
  /\ pc = "returned" /\ PositiveSize
  /\ cfg.panels = 6 /\ cfg.bridge_type = "Pratt Truss"
  /\ Cardinality(DOMAIN geo.members) = 25

\* The diagonal the specification gives panel i of a Pratt or Howe truss.
ExpectedDiag(g, btype, i, panels) ==
  LET half == panels \div 2
      down == <<At(g.top, i), At(g.bottom, i + 1)>>
      up == <<At(g.bottom, i), At(g.top, i + 1)>>
  IN  IF btype = "Pratt Truss"
      THEN IF i < half THEN down ELSE up
      ELSE IF i < half THEN up ELSE down

\* C4: Pratt and Howe, any panelCount >= 1, even or odd: one diagonal per
\* panel; with half = panelCount // 2, Pratt has (top[i], bottom[i+1]) for
\* i < half and (bottom[i], top[i+1]) for i >= half, Howe the opposite in
\* every panel; for panelCount = 8 the split is 4 / 4.
C4_PrattHoweDiagonals ==
  (Computed /\ cfg.bridge_type \in {"Pratt Truss", "Howe Truss"} /\ cfg.panels >= 1) =>
    /\ Len(geo.diags) = cfg.panels
    /\ \A i \in 0..(cfg.panels - 1) :
         geo.members[At(geo.diags, i)] = ExpectedDiag(geo, cfg.bridge_type, i, cfg.panels)
    /\ cfg.panels = 8 =>
         Cardinality({i \in 0..7 : geo.members[At(geo.diags, i)][1] \in Elems(geo.top)}) = 4

C4_Witness ==
  /\ pc = "returned"
  /\ cfg.panels = 7 /\ cfg.bridge_type = "Pratt Truss"
  /\ geo.members[At(geo.diags, 2)] = <<At(geo.top, 2), At(geo.bottom, 3)>>
  /\ geo.members[At(geo.diags, 3)] = <<At(geo.bottom, 3), At(geo.top, 4)>>

\* C5: Warren with panelCount = p >= 1: p+1 bottom nodes, p apex nodes
\* (N = 2p+1), p bottom chords, p-1 top chords, 2p diagonals
\* (bottom[i]-top[i], top[i]-bottom[i+1] for each panel), no verticals,
\* M = 4p-1; for p = 8, 17 nodes and 31 members.
C5_WarrenCounts ==
  (Computed /\ cfg.bridge_type = "Warren Truss" /\ cfg.panels >= 1) =>
    LET q == cfg.panels
    IN  /\ Len(geo.bottom) = q + 1
        /\ Len(geo.top) = q
        /\ TotalN(geo) = 2 * q + 1
        /\ Len(geo.bot_ch) = q
        /\ Len(geo.top_ch) = q - 1
        /\ Len(geo.diags) = 2 * q
        /\ \A i \in 0..(q - 1) :
             /\ geo.members[At(geo.diags, 2 * i)] = <<At(geo.bottom, i), At(geo.top, i)>>
             /\ geo.members[At(geo.diags, 2 * i + 1)] = <<At(geo.top, i), At(geo.bottom, i + 1)>>
        /\ geo.verts = <<>>
        /\ TotalM(geo) = 4 * q - 1
        /\ q = 8 => TotalN(geo) = 17 /\ TotalM(geo) = 31

C5_Witness ==
  /\ pc = "returned"
  /\ cfg.panels = 8 /\ cfg.bridge_type = "Warren Truss"
  /\ Len(geo.diags) = 16 /\ TotalN(geo) = 17

\* -------------------------------------------------- claims on the exporter
InvalidCfg == cfg.panels < 1 \/ cfg.span <= 0 \/ cfg.height <= 0

LastLogIsError == logs # <<>> /\ logs[Len(logs)].a = <<"error">>

\* C6: a configuration with panelCount < 1, span <= 0 or height <= 0 is
\* rejected: compute_geometry returns no geometry for it and the export
\* fails before any external call, connect included.
C6_InvalidRejected ==
  InvalidCfg =>
    /\ ~Computed
    /\ calls = <<>>
    /\ pc = "done" => result = "False"

\* C7: the support assigned to the first bottom node is of the configured
\* left type and the one assigned to the last bottom node of the configured
\* right type, for every pair of types from Fixed, Pinned, Roller (stated
\* for the valid configurations, where it already fails).
C7_SupportsAsConfigured ==
  ~InvalidCfg =>
    \A j \in 1..Len(calls) :
      calls[j].op = "AssignSupportToNode" =>
        /\ calls[j].a[1] = At(geo.bottom, 0) => calls[j].a[2] = cfg.support_left
        /\ calls[j].a[1] = At(geo.bottom, Len(geo.bottom) - 1) =>
             calls[j].a[2] = cfg.support_right

\* C8: every failure is caught at the exporter boundary: run_in_staad ends
\* by returning, False after an error message on the log callback, and no
\* exception leaves it.
C8_FailuresCaught ==
  pc = "done" =>
    /\ result \in {"True", "False"}
    /\ result = "False" => LastLogIsError

\* C9: when the binding cannot be imported or connect raises, the export
\* returns failure with an error reported and no node, member or other
\* modeling call is issued.
C9_UnavailableNoModeling ==
  raised \in {"ImportError", "connect"} =>
    /\ pc = "done"
    /\ result = "False"
    /\ LastLogIsError
    /\ \A j \in 1..Len(calls) : calls[j].op = "connect"

C9_Witness ==
  /\ raised = "connect" /\ pc = "done" /\ result = "False"
  /\ Len(calls) = 1 /\ Computed /\ TotalN(geo) > 0

\* The phase of the j-th call issued, 1 (connect) to 12 (run analysis);
\* SaveModel belongs to phase `saveAfterUnits` when it directly follows
\* SetInputUnits, else to the save phase 11.
Phase(j, saveAfterUnits) ==
  LET c == calls[j]
  IN  CASE c.op = "connect" -> 1
        [] c.op = "SetInputUnits" -> 2
        [] c.op = "SaveModel" ->
             IF j > 1 /\ calls[j - 1].op = "SetInputUnits" THEN saveAfterUnits ELSE 11
        [] c.op = "CreateNode" -> 3
        [] c.op = "CreateBeam" -> 4
        [] c.op \in {"CreateBeamPropertyFromTable", "CreateAnglePropertyFromTable",
                     "AssignBeamProperty", "AssignMaterialToMember"} -> 5
        [] c.op \in {"CreateMemberPartialReleaseSpec", "AssignMemberSpecToBeam"} -> 6
        [] c.op \in {"CreateSupportFixed", "CreateSupportPinned",
                     "AssignSupportToNode"} -> 7
        [] c.op = "CreateNewPrimaryLoadEx2" -> IF c.a[3] = 1 THEN 8 ELSE 9
        [] c.op = "SetLoadActive" -> IF c.a[1] = 1 THEN 8 ELSE 9
        [] c.op \in {"AddSelfWeightInXYZ", "AddNodalLoad"} -> 8
        [] c.op = "AddMemberUniformForce" -> IF c.a[2] = 2 THEN 8 ELSE 9
        [] c.op \in {"CreateNewLoadCombination", "AddLoadAndFactorToCombination"} -> 10
        [] c.op = "PerformAnalysis" -> 12

\* The phases never decrease from one call to the next.
PhasesInOrder(saveAfterUnits) ==
  \A j \in 1..(Len(calls) - 1) : Phase(j, saveAfterUnits) <= Phase(j + 1, saveAfterUnits)

\* Node ids of the CreateNode calls issued before call j.
NodesCreatedBefore(j) == {calls[i].a[1] : i \in {h \in 1..(j - 1) : calls[h].op = "CreateNode"}}

MembersAfterNodes ==
  \A j \in 1..Len(calls) :
    calls[j].op = "CreateBeam" =>
      /\ NodesCreatedBefore(j) = DOMAIN geo.nodes
      /\ calls[j].a[2] \in NodesCreatedBefore(j)
      /\ calls[j].a[3] \in NodesCreatedBefore(j)

AnalysisLast ==
  /\ \A j \in 1..Len(calls) :
       calls[j].op = "PerformAnalysis" =>
         j = Len(calls) /\ j > 1 /\ calls[j - 1].op = "SaveModel"
  /\ result = "True" => calls # <<>> /\ calls[Len(calls)].op = "PerformAnalysis"

\* C10 as stated: the calls come in the phase order connect, units, nodes,
\* members, properties, releases, supports, load case 1, wind case,
\* combination, save, analysis; no member before every node, members
\* reference created nodes only; the model is saved and the analysis run
\* only as the last step (stated for the valid configurations, where it
\* already fails).
C10_PhaseOrder ==
  ~InvalidCfg =>
    /\ PhasesInOrder(11)
    /\ MembersAfterNodes
    /\ AnalysisLast

\* C10 amended: the same order, except that the model is also saved once
\* directly after the units are set (part of the units phase); the second
\* save directly precedes the analysis, which is the last call.
C10_PhaseOrderAmended ==
  /\ PhasesInOrder(2)
  /\ MembersAfterNodes
  /\ AnalysisLast
  /\ \A j \in 1..Len(calls) :
       calls[j].op = "SaveModel" =>
         \/ j > 1 /\ calls[j - 1].op = "SetInputUnits"
         \/ j > 1 /\ Phase(j - 1, 2) \in 3..10

C10_Witness ==
  /\ result = "True"
  /\ cfg.panels = MinUIPanels
  /\ \E j \in 1..Len(calls) : calls[j].op = "CreateBeam"
  /\ \E j \in 1..Len(calls) : calls[j].op = "AddNodalLoad"
  /\ calls[Len(calls)].op = "PerformAnalysis"

\* Positions in calls of the calls of operation op.
CallsOf(op) == {j \in 1..Len(calls) : calls[j].op = op}

\* The release step is behind: a support call has been issued.
ReleaseStepPassed ==
  \E j \in 1..Len(calls) : calls[j].op \in {"CreateSupportFixed", "CreateSupportPinned"}

LoadCase1Passed ==
  \E j \in CallsOf("CreateNewPrimaryLoadEx2") : calls[j].a[3] = 2

\* C13: in load case 1 the live load (when one is configured, > 0) goes to
\* every interior bottom node bottom[1] .. bottom[panelCount-1] exactly
\* once, and to neither support node bottom[0], bottom[panelCount] nor to
\* any top node.
C13_LiveLoadInterior ==
  LET nodal == CallsOf("AddNodalLoad")
      last == Len(geo.bottom) - 1
      inner == {At(geo.bottom, i) : i \in 1..(last - 1)}
  IN  /\ \A j \in nodal :
           /\ calls[j].a[1] \in inner
           /\ calls[j].a[1] # At(geo.bottom, 0)
           /\ calls[j].a[1] # At(geo.bottom, last)
           /\ calls[j].a[1] \notin Elems(geo.top)
           /\ calls[j].a[2] = 0 - cfg.live_load
      /\ \A j, k \in nodal : j # k => calls[j].a[1] # calls[k].a[1]
      /\ (LoadCase1Passed /\ cfg.live_load > 0) =>
           \A n \in inner : \E j \in nodal : calls[j].a[1] = n

C13_Witness ==
  /\ result = "True"
  /\ cfg.panels = MinUIPanels /\ cfg.live_load > 0
  /\ Cardinality(CallsOf("AddNodalLoad")) = 3

\* The statements that are not calls of the external service.
InternalFaults == {"none", "ImportError", "ZeroDivisionError", "IndexError"}

IsPrefix(s, u) == Len(s) <= Len(u) /\ SubSeq(u, 1, Len(s)) = s

\* C14: when an external call raises, no further external call is issued
\* (no remaining step, no rollback), the error is reported through the log
\* callback tagged as an error, the result is failure, and the calls issued
\* before stay as they were.
C14_AbortOnRaise ==
  [][/\ IsPrefix(calls, calls')
     /\ raised # "none" => calls' = calls
     /\ (raised = "none" /\ raised' \notin InternalFaults) =>
          /\ calls' # <<>> /\ calls'[Len(calls')].op = raised'
          /\ result' = "False"
          /\ Len(logs') > 0 /\ logs'[Len(logs')] = ErrorLog
          /\ IsPrefix(logs, logs')
          /\ pc' = "done"]_vars

C14_Witness ==
  /\ raised = "CreateBeam" /\ result = "False"
  /\ Len(calls) > 8
  /\ logs[Len(logs)].a = <<"error">>

\* C15: for every topology and valid input no two distinct nodes have the
\* same coordinates, so every member has non-zero length.
C15_DistinctCoords ==
  (Computed /\ PositiveSize /\ cfg.panels >= 1) =>
    /\ \A a, b \in DOMAIN geo.nodes : a # b => geo.nodes[a] # geo.nodes[b]
    /\ \A m \in DOMAIN geo.members :
         geo.nodes[geo.members[m][1]] # geo.nodes[geo.members[m][2]]

\* ------------------------------------------------------ claims on the shell
\* Completion updates handed to the UI thread and not yet run.
DonePending == {i \in 1..Len(inbox) : inbox[i].kind = "done"}

\* An export is under way: its worker runs, or its completion update waits.
ExportInFlight == workers > 0 \/ DonePending # {}

\* C11: at most one export runs at any time. From the start of an export
\* until its completion update has run on the UI thread the export button is
\* disabled, and no second worker exists while one is in flight.
C11_OneExportAtATime ==
  /\ workers + Cardinality(DonePending) <= 1
  /\ ExportInFlight => btn = "disabled"

\* A second export is under way, started after the first one completed.
C11_Witness ==
  /\ runs = MaxRuns
  /\ workers = 1
  /\ pc = "members"
  /\ btn = "disabled"

\* The status shows an export that ended, and the button can be used again.
ShownFinished == status \in {"DONE", "ERROR"} /\ btn = "normal"

\* The completion update runs after every log line of its export: nothing of
\* the export is left pending, the widget shows all its lines, and the status
\* tells its result.
DoneAfterLogs ==
  (inbox # <<>> /\ Head(inbox).kind = "done" /\ inbox' = Tail(inbox)) =>
     /\ inbox' = <<>>
     /\ workers' = 0
     /\ display' = << Log("Starting bridge model build", "info") >> \o logs
     /\ status' = (IF result = "True" THEN "DONE" ELSE "ERROR")

\* C16: every export the shell starts eventually finishes from the shell's
\* point of view: once the status shows running it eventually shows done or
\* error with the export button enabled again, and the completion update is
\* delivered after all log lines of that export.
C16_ExportFinishes ==
  /\ (status = "RUNNING") ~> ShownFinished
  /\ [][DoneAfterLogs]_vars

====
